---- MODULE Spec2Model ----
(***************************************************************************)
(* ODPC Kenya checker (odpc_checker.py): a Streamlit script that scrapes   *)
(* the first table of one web page (cached for an hour), normalises the    *)
(* names of an uploaded spreadsheet and of the scraped table, left-merges  *)
(* them with pandas and projects a fixed list of columns.                  *)
(*                                                                         *)
(* Text is a sequence of one-character strings, so that strip(), lower()   *)
(* and upper() are computed and not assumed.  A DataFrame is a record      *)
(* [columns, rows]: the column labels in order and one function            *)
(* label -> value per row.                                                 *)
(***************************************************************************)
EXTENDS Integers, Sequences, FiniteSets, TLC

VARIABLES
    site,           \* what the remote URL serves now: [kind, table]
    cache,          \* the st.cache_data entry of scrape_odpc_data
    scraped,        \* last execution of the body of scrape_odpc_data
    case_option,    \* st.radio selection
    uploaded_file,  \* st.file_uploader value
    called,         \* the last run called scrape_odpc_data()
    fetched,        \* the last run executed requests.get
    returned,       \* what scrape_odpc_data() returned to the last run
    messages,       \* st.info / st.error / st.success of the last run, in order
    df,             \* the user frame of the last run (after normalisation)
    odpc_df,        \* the reference frame the last run worked on
    indexers,       \* left/right row indexers of pd.merge in the last run
    merged_df,      \* merged_df of the last run
    result_df,      \* result_df of the last run
    event           \* the last thing that happened

vars == <<site, cache, scraped, case_option, uploaded_file, called, fetched,
          returned, messages, df, odpc_df, indexers, merged_df, result_df, event>>

-----------------------------------------------------------------------------
(* Bounds of the model *)

MaxTableRows == 3
MaxTableCells == 4
MaxUserRows == 2
MaxRefRows == 2

-----------------------------------------------------------------------------
(* Text *)

UpperChars == <<"A", "B", "C", "D", "E", "F", "G", "H", "I", "J", "K", "L", "M", "N", "O", "P", "Q", "R", "S", "T", "U", "V", "W", "X", "Y", "Z">>
LowerChars == <<"a", "b", "c", "d", "e", "f", "g", "h", "i", "j", "k", "l", "m", "n", "o", "p", "q", "r", "s", "t", "u", "v", "w", "x", "y", "z">>
Whitespace == {" ", "\t", "\n"}

COL_PROVIDER_NAME == <<"P", "r", "o", "v", "i", "d", "e", "r", " ", "N", "a", "m", "e">>
COL_NAME == <<"N", "A", "M", "E">>
COL_MATCHED_NAME == <<"M", "a", "t", "c", "h", "e", "d", " ", "N", "a", "m", "e">>
COL_TYPE == <<"T", "Y", "P", "E">>
COL_CURRENT_STATE == <<"C", "U", "R", "R", "E", "N", "T", " ", "S", "T", "A", "T", "E">>
COL_REGISTRATION_NUMBER == <<"R", "E", "G", "I", "S", "T", "R", "A", "T", "I", "O", "N", " ", "N", "U", "M", "B", "E", "R">>
COL_COUNTY == <<"C", "O", "U", "N", "T", "Y">>
COL_COUNTRY == <<"C", "O", "U", "N", "T", "R", "Y">>
COL_PROVIDER_NORMALIZED == <<"p", "r", "o", "v", "i", "d", "e", "r", "_", "n", "o", "r", "m", "a", "l", "i", "z", "e", "d">>
COL_ODPC_NORMALIZED == <<"o", "d", "p", "c", "_", "n", "o", "r", "m", "a", "l", "i", "z", "e", "d">>
SUFFIX_X == <<"_", "x">>
SUFFIX_Y == <<"_", "y">>

\* A missing value (numpy NaN) and Python's None; neither is a text.
NaN == <<"<NaN>">>
None == <<"<None>">>
IsNull(v) == v = NaN \/ v = None

SetMin(S) == CHOOSE x \in S : \A y \in S : x <= y
SetMax(S) == CHOOSE x \in S : \A y \in S : x >= y

\* str.strip(): drop leading and trailing whitespace
str_strip(s) ==
    LET keep == {i \in 1..Len(s) : s[i] \notin Whitespace}
    IN  IF keep = {} THEN <<>> ELSE SubSeq(s, SetMin(keep), SetMax(keep))

char_lower(c) ==
    IF \E i \in 1..Len(UpperChars) : UpperChars[i] = c
    THEN LowerChars[CHOOSE i \in 1..Len(UpperChars) : UpperChars[i] = c]
    ELSE c

char_upper(c) ==
    IF \E i \in 1..Len(LowerChars) : LowerChars[i] = c
    THEN UpperChars[CHOOSE i \in 1..Len(LowerChars) : LowerChars[i] = c]
    ELSE c

str_lower(s) == [i \in 1..Len(s) |-> char_lower(s[i])]
str_upper(s) == [i \in 1..Len(s) |-> char_upper(s[i])]

\* Series.astype(str): a missing cell becomes the text "nan"
astype_str(v) ==
    IF v = NaN THEN <<"n", "a", "n">>
    ELSE IF v = None THEN <<"N", "o", "n", "e">>
    ELSE v

-----------------------------------------------------------------------------
(* DataFrames *)

EmptyFrame == [columns |-> <<>>, rows |-> <<>>]

\* DataFrame.empty that never reports an empty frame
frame_empty_never(f) == FALSE

\* DataFrame.empty: some axis has length 0
frame_empty(f) == Len(f.columns) = 0 \/ Len(f.rows) = 0

Range(s) == {s[i] : i \in 1..Len(s)}

\* first-occurrence order of the distinct elements of s
RECURSIVE Dedupe(_)
Dedupe(s) ==
    IF s = <<>> THEN <<>>
    ELSE LET d == Dedupe(SubSeq(s, 1, Len(s) - 1))
             x == s[Len(s)]
         IN  IF x \in Range(d) THEN d ELSE Append(d, x)

-----------------------------------------------------------------------------
(* scrape_odpc_data *)

MSG_SCRAPING_ERROR == "Scraping error"

RECURSIVE Flatten(_)
Flatten(trs) == IF trs = <<>> THEN <<>> ELSE Head(trs) \o Flatten(Tail(trs))

\* table.find_all(tag) within one row or the whole table
find_all(cells, tag) == LET Test(c) == c.tag = tag IN SelectSeq(cells, Test)

\* headers = [th.text.strip() for th in table.find_all("th")]
table_headers(table) ==
    LET ths == find_all(Flatten(table), "th")
    IN  [i \in 1..Len(ths) |-> str_strip(ths[i].text)]

\* a dict that keeps the value written first for a repeated key
row_dict_first_wins(headers, cells) ==
    [h \in Range(headers) |->
        str_strip(cells[SetMin({i \in 1..Len(headers) : headers[i] = h})].text)]

\* {headers[i]: cells[i].text.strip() for i in range(len(headers))}:
\* a repeated key keeps the value written last
row_dict(headers, cells) ==
    [h \in Range(headers) |->
        str_strip(cells[SetMax({i \in 1..Len(headers) : headers[i] = h})].text)]

\* the loop over table.find_all("tr")[1:]
RECURSIVE table_rows(_, _)
table_rows(headers, trs) ==
    IF trs = <<>> THEN <<>>
    ELSE LET cells == find_all(Head(trs), "td")
             rest == table_rows(headers, Tail(trs))
         IN  IF Len(cells) # Len(headers) THEN rest
             ELSE <<row_dict(headers, cells)>> \o rest

\* pd.DataFrame(rows) of a list of dicts
DataFrame(headers, rows) ==
    IF rows = <<>> THEN EmptyFrame
    ELSE [columns |-> Dedupe(headers), rows |-> rows]

parse_table(table) ==
    LET headers == table_headers(table)
        trs == IF table = <<>> THEN <<>> ELSE Tail(table)
    IN  DataFrame(headers, table_rows(headers, trs))

\* a body that raises when the page has no table
scrape_body_no_table_raises(s) ==
    IF s.kind \in {"request_error", "http_error", "no_table"}
    THEN [value |-> EmptyFrame, msgs |-> <<MSG_SCRAPING_ERROR>>]
    ELSE [value |-> parse_table(s.table), msgs |-> <<>>]

\* the body of scrape_odpc_data: the frame returned and the st elements written
scrape_body(s) ==
    IF s.kind \in {"request_error", "http_error"}
    THEN [value |-> EmptyFrame, msgs |-> <<MSG_SCRAPING_ERROR>>]
    ELSE IF s.kind = "no_table"
    THEN [value |-> EmptyFrame, msgs |-> <<>>]
    ELSE [value |-> parse_table(s.table), msgs |-> <<>>]

-----------------------------------------------------------------------------
(* main: the steps between the upload and the result *)

MSG_UPLOAD_INFO == "Please upload an Excel file to begin."
MSG_READ_ERROR == "Error reading Excel file"
MSG_NO_PROVIDER_NAME == "Excel must contain a column named exactly: 'Provider Name'"
MSG_NO_ODPC_DATA == "Could not retrieve ODPC data."
MSG_NO_NAME_COLUMN == "ODPC website structure changed. 'NAME' column not found."
MSG_SUCCESS == "Matching Complete"

ttl == 3600

\* pd.read_excel(uploaded_file): the sheet's header row and its rows
read_excel(file) == [columns |-> file.columns, rows |-> file.rows]

\* the frame with its columns relabelled (one new label per old one)
relabel(f, labels) ==
    [columns |-> labels,
     rows |-> [r \in 1..Len(f.rows) |->
                 [c \in Range(labels) |->
                     f.rows[r][f.columns[CHOOSE i \in 1..Len(labels) : labels[i] = c]]]]]

\* frame.columns = frame.columns.str.strip()
strip_columns(f) ==
    relabel(f, [i \in 1..Len(f.columns) |-> str_strip(f.columns[i])])

\* "Provider Name" not in df.columns
missing_provider_name(f) == COL_PROVIDER_NAME \notin Range(f.columns)

\* a NAME check that never fires
missing_name_never(f) == FALSE

\* "NAME" not in odpc_df.columns
missing_name(f) == COL_NAME \notin Range(f.columns)

\* the two branches on case_option for the user's names
normalize_provider(opt, v) ==
    IF opt = "Lowercase"
    THEN str_lower(str_strip(astype_str(v)))
    ELSE str_upper(str_strip(astype_str(v)))

\* the reference names folded to the case that was not selected
normalize_odpc_other_case(opt, v) ==
    IF opt = "Lowercase"
    THEN str_upper(str_strip(astype_str(v)))
    ELSE str_lower(str_strip(astype_str(v)))

\* the two branches on case_option for the reference names
normalize_odpc(opt, v) ==
    IF opt = "Lowercase"
    THEN str_lower(str_strip(astype_str(v)))
    ELSE str_upper(str_strip(astype_str(v)))

\* frame[col] = values: an existing column is overwritten in place, a new one
\* is appended
set_column(f, col, values) ==
    [columns |-> IF col \in Range(f.columns) THEN f.columns ELSE Append(f.columns, col),
     rows |-> [r \in 1..Len(f.rows) |-> (col :> values[r]) @@ f.rows[r]]]

\* df["provider_normalized"] = ...
with_provider_normalized(f, opt) ==
    set_column(f, COL_PROVIDER_NORMALIZED,
        [r \in 1..Len(f.rows) |-> normalize_provider(opt, f.rows[r][COL_PROVIDER_NAME])])

\* odpc_df["odpc_normalized"] = ...
with_odpc_normalized(f, opt) ==
    set_column(f, COL_ODPC_NORMALIZED,
        [r \in 1..Len(f.rows) |-> normalize_odpc(opt, f.rows[r][COL_NAME])])

\* the matching right rows in reverse order
RECURSIVE right_matches_reversed(_, _, _)
right_matches_reversed(key, right, j) ==
    IF j > Len(right.rows) THEN <<>>
    ELSE right_matches_reversed(key, right, j + 1)
         \o (IF right.rows[j][COL_ODPC_NORMALIZED] = key THEN <<j>> ELSE <<>>)

\* pd.merge(..., how="left"): for each left row in order, every right row with
\* an equal key in right order, or one pair without a right row (0)
RECURSIVE right_matches(_, _, _)
right_matches(key, right, j) ==
    IF j > Len(right.rows) THEN <<>>
    ELSE (IF right.rows[j][COL_ODPC_NORMALIZED] = key THEN <<j>> ELSE <<>>)
         \o right_matches(key, right, j + 1)

\* how="inner": a left row without a match is dropped
RECURSIVE join_indexers_inner(_, _, _)
join_indexers_inner(left, right, i) ==
    IF i > Len(left.rows) THEN <<>>
    ELSE LET js == right_matches(left.rows[i][COL_PROVIDER_NORMALIZED], right, 1)
         IN  [k \in 1..Len(js) |-> <<i, js[k]>>]
             \o join_indexers_inner(left, right, i + 1)

RECURSIVE join_indexers(_, _, _)
join_indexers(left, right, i) ==
    IF i > Len(left.rows) THEN <<>>
    ELSE LET js == right_matches(left.rows[i][COL_PROVIDER_NORMALIZED], right, 1)
         IN  (IF js = <<>> THEN << <<i, 0>> >>
              ELSE [k \in 1..Len(js) |-> <<i, js[k]>>])
             \o join_indexers(left, right, i + 1)

\* labels present on both sides get the suffixes _x and _y
merge_left_label(left, right, c) ==
    IF c \in Range(right.columns) THEN c \o SUFFIX_X ELSE c
merge_right_label(left, right, c) ==
    IF c \in Range(left.columns) THEN c \o SUFFIX_Y ELSE c

\* the merged rows: the left row's values under the left labels, the right
\* row's values (NaN without a right row) under the right labels
merge_rows(left, right, ix, lcols, rcols) ==
    [columns |-> lcols \o rcols,
     rows |-> [k \in 1..Len(ix) |->
        [i \in 1..Len(lcols) |-> left.rows[ix[k][1]][left.columns[i]]]
        \o [i \in 1..Len(rcols) |->
              IF ix[k][2] = 0 THEN NaN ELSE right.rows[ix[k][2]][right.columns[i]]]]]

\* a frame whose rows are lists in column order, as one whose rows are keyed
\* by label
keyed(f) ==
    [columns |-> f.columns,
     rows |-> [r \in 1..Len(f.rows) |->
                 [c \in Range(f.columns) |->
                     f.rows[r][CHOOSE i \in 1..Len(f.columns) : f.columns[i] = c]]]]

merge(left, right, ix) ==
    keyed(merge_rows(left, right, ix,
        [i \in 1..Len(left.columns) |-> merge_left_label(left, right, left.columns[i])],
        [i \in 1..Len(right.columns) |-> merge_right_label(left, right, right.columns[i])]))

\* merged_df["Matched Name"] = merged_df.get("NAME", None)
with_matched_name(m) ==
    set_column(m, COL_MATCHED_NAME,
        [r \in 1..Len(m.rows) |->
            IF COL_NAME \in Range(m.columns) THEN m.rows[r][COL_NAME] ELSE None])

desired_columns ==
    <<COL_PROVIDER_NAME, COL_MATCHED_NAME, COL_TYPE, COL_CURRENT_STATE,
      COL_REGISTRATION_NUMBER, COL_COUNTY, COL_COUNTRY>>

\* [col for col in desired_columns if col in merged_df.columns]
available_columns(m) ==
    LET Test(c) == c \in Range(m.columns) IN SelectSeq(desired_columns, Test)

\* merged_df[available_columns]
project(m, cols) ==
    [columns |-> cols,
     rows |-> [r \in 1..Len(m.rows) |-> [c \in Range(cols) |-> m.rows[r][c]]]]

-----------------------------------------------------------------------------
(* State shared by the specifications *)

NoCache == [present |-> FALSE, value |-> EmptyFrame, msgs |-> <<>>, age |-> 0,
            origin |-> [kind |-> "none", table |-> <<>>]]
NoFile == [present |-> FALSE, readable |-> FALSE, columns |-> <<>>, rows |-> <<>>]
NotScraped == [done |-> FALSE, value |-> EmptyFrame, msgs |-> <<>>]

Idle ==
    /\ cache = NoCache
    /\ scraped = NotScraped
    /\ called = FALSE
    /\ fetched = FALSE
    /\ returned = EmptyFrame
    /\ messages = <<>>
    /\ df = EmptyFrame
    /\ odpc_df = EmptyFrame
    /\ indexers = <<>>
    /\ merged_df = EmptyFrame
    /\ result_df = EmptyFrame
    /\ event = "init"

-----------------------------------------------------------------------------
(* @st.cache_data(ttl=3600) *)

\* Whether a call is served from the cache.  An entry younger than ttl is;
\* one older is not; at exactly ttl the comparison differs between versions
\* of the cache library, so both outcomes are possible.
cache_hits(c) ==
    IF ~c.present THEN {FALSE}
    ELSE IF c.age < ttl THEN {TRUE}
    ELSE IF c.age = ttl THEN {TRUE, FALSE}
    ELSE {FALSE}

\* a cache that hands out the cached frame itself (as st.cache_resource does)
cache_after_run_shared(entry, local) == [entry EXCEPT !.value = local]

\* The entry after the caller has modified the frame it was handed: the cache
\* keeps a serialised copy, so the caller's frame is not the cached one
cache_after_run(entry, local) == entry

MSG_KEY_ERROR == "KeyError"

\* How far a run gets.  frame[label] of an absent label raises KeyError, which
\* ends the run with the exception shown; the two presence checks precede
\* every such access.
run_stage(file, user, value, ref) ==
    IF ~file.present THEN "no_file"
    ELSE IF ~file.readable THEN "read_error"
    ELSE IF missing_provider_name(user) THEN "no_provider_name"
    ELSE IF COL_PROVIDER_NAME \notin Range(user.columns) THEN "key_error_user"
    ELSE IF frame_empty(value) THEN "no_odpc_data"
    ELSE IF missing_name(ref) THEN "no_name"
    ELSE IF COL_NAME \notin Range(ref.columns) THEN "key_error_odpc"
    ELSE "ok"

\* lines 87-154 of a run that passed the checks
match_result(dfN, refN, ix, m) ==
    [df |-> dfN, odpc_df |-> refN, indexers |-> ix, merged_df |-> m,
     result_df |-> project(m, available_columns(m))]
match_indexed(dfN, refN, ix) ==
    match_result(dfN, refN, ix, with_matched_name(merge(dfN, refN, ix)))
match_frames(dfN, refN) ==
    match_indexed(dfN, refN, join_indexers(dfN, refN, 1))
match(user, ref, opt) ==
    match_frames(with_provider_normalized(user, opt), with_odpc_normalized(ref, opt))

\* the frames a run leaves behind, by the stage it reached
run_frames(stage, user, value, ref, opt) ==
    IF stage = "ok" THEN match(user, ref, opt)
    ELSE [df |-> IF stage \in {"no_odpc_data", "no_name", "key_error_odpc"}
                 THEN with_provider_normalized(user, opt)
                 ELSE IF stage \in {"no_provider_name", "key_error_user"} THEN user
                 ELSE EmptyFrame,
          odpc_df |-> IF stage = "no_odpc_data" THEN value
                      ELSE IF stage \in {"no_name", "key_error_odpc"} THEN ref
                      ELSE EmptyFrame,
          indexers |-> <<>>, merged_df |-> EmptyFrame, result_df |-> EmptyFrame]

\* the messages of a run, by the stage it reached
run_messages(stage, msgs) ==
    CASE stage = "no_file" -> <<MSG_UPLOAD_INFO>>
      [] stage = "read_error" -> <<MSG_READ_ERROR>>
      [] stage = "no_provider_name" -> <<MSG_NO_PROVIDER_NAME>>
      [] stage = "key_error_user" -> <<MSG_KEY_ERROR>>
      [] stage = "no_odpc_data" -> msgs \o <<MSG_NO_ODPC_DATA>>
      [] stage = "no_name" -> msgs \o <<MSG_NO_NAME_COLUMN>>
      [] stage = "key_error_odpc" -> msgs \o <<MSG_KEY_ERROR>>
      [] stage = "ok" -> msgs \o <<MSG_SUCCESS>>

\* the stages at which scrape_odpc_data() has been called
Reached == {"no_odpc_data", "no_name", "key_error_odpc", "ok"}

\* One run of the script for the given widget values
Script(file, opt, ev) ==
    \E hit \in cache_hits(cache) :
    \E user \in {strip_columns(read_excel(file))} :
    \E call \in {IF hit THEN [value |-> cache.value, msgs |-> cache.msgs]
                 ELSE scrape_body(site)} :
    \E ref \in {strip_columns(call.value)} :
    \E stage \in {run_stage(file, user, call.value, ref)} :
    \E out \in {run_frames(stage, user, call.value, ref, opt)} :
        /\ uploaded_file' = file
        /\ case_option' = opt
        /\ event' = ev
        /\ called' = (stage \in Reached)
        /\ fetched' = (stage \in Reached /\ ~hit)
        /\ returned' = IF stage \in Reached THEN call.value ELSE EmptyFrame
        /\ scraped' = IF stage \in Reached /\ ~hit THEN [done |-> TRUE] @@ call
                      ELSE scraped
        /\ cache' = IF stage \in Reached
                    THEN cache_after_run(
                           IF hit THEN cache
                           ELSE [present |-> TRUE, value |-> call.value,
                                 msgs |-> call.msgs, age |-> 0, origin |-> site],
                           out.odpc_df)
                    ELSE cache
        /\ messages' = run_messages(stage, call.msgs)
        /\ df' = out.df
        /\ odpc_df' = out.odpc_df
        /\ indexers' = out.indexers
        /\ merged_df' = out.merged_df
        /\ result_df' = out.result_df
        /\ UNCHANGED site

RunEvents == {"upload", "select", "rerun", "reload"}

-----------------------------------------------------------------------------
(* Inputs *)

Seqs(S, n) == UNION {[1..k -> S] : k \in 0..n}

COL_COMPANY == <<"C", "o", "m", "p", "a", "n", "y">>

UserLayouts ==
    { <<COL_PROVIDER_NAME>>,
      << <<" ">> \o COL_PROVIDER_NAME \o <<" ">> >>,
      <<COL_PROVIDER_NAME, COL_NAME>>,
      <<COL_COMPANY>> }

UserNames == { <<"A", "b", " ">>, <<"x">>, NaN }

Sheet(layout, names) ==
    [present |-> TRUE, readable |-> TRUE, columns |-> layout,
     rows |-> [i \in 1..Len(names) |->
                [c \in Range(layout) |->
                    IF str_strip(c) = COL_PROVIDER_NAME \/ c = COL_COMPANY
                    THEN names[i] ELSE <<"u">>]]]

JoinUploads ==
    {Sheet(l, n) : l \in UserLayouts, n \in Seqs(UserNames, MaxUserRows)}

RefLayouts ==
    { <<COL_NAME>>,
      << <<" ">> \o COL_NAME, COL_TYPE>>,
      <<COL_TYPE>> }

RefNames == { <<"A", "B">>, <<"a", "B", " ">>, <<"y">> }

Page(layout, names) ==
    [kind |-> "table",
     table |-> << [k \in 1..Len(layout) |-> [tag |-> "th", text |-> layout[k]]] >>
               \o [i \in 1..Len(names) |->
                    [k \in 1..Len(layout) |->
                        [tag |-> "td",
                         text |-> IF str_strip(layout[k]) = COL_NAME
                                  THEN names[i] ELSE [j \in 1..i |-> "t"]]]]]

JoinPages ==
    {Page(l, n) : l \in RefLayouts, n \in Seqs(RefNames, MaxRefRows)}

Unreadable == [present |-> TRUE, readable |-> FALSE, columns |-> <<>>, rows |-> <<>>]

SessionUploads ==
    { Sheet(<<COL_PROVIDER_NAME>>, << <<"A", "b", " ">>, <<"x">> >>),
      Sheet(<<COL_COMPANY>>, << <<"x">> >>),
      Unreadable }

MalformedPage ==
    [kind |-> "table",
     table |-> << <<[tag |-> "th", text |-> COL_NAME], [tag |-> "th", text |-> COL_TYPE]>>,
                  <<[tag |-> "td", text |-> <<"A", "B">>]>> >>]

SessionPages ==
    { [kind |-> "request_error", table |-> <<>>],
      [kind |-> "http_error", table |-> <<>>],
      [kind |-> "no_table", table |-> <<>>],
      Page(<<COL_NAME, COL_TYPE>>, <<>>),
      MalformedPage,
      Page(<<COL_NAME, COL_TYPE>>, << <<"A", "B">>, <<"y">> >>),
      Page(<<COL_TYPE>>, << <<"y">> >>) }

-----------------------------------------------------------------------------
(* Spec: a session.  Every widget interaction reruns the script. *)

Init ==
    /\ site \in SessionPages
    /\ case_option = "Lowercase"
    /\ uploaded_file = NoFile
    /\ Idle

Upload(f) == Script(f, case_option, "upload")

SelectCase(c) ==
    /\ c # case_option
    /\ Script(uploaded_file, c, "select")

Rerun == Script(uploaded_file, case_option, "rerun")

\* a browser reload starts a new session: the widgets are back at their
\* defaults, the cache is shared by all sessions
Reload == Script(NoFile, "Lowercase", "reload")

Unrun ==
    UNCHANGED <<scraped, case_option, uploaded_file, called, fetched, returned,
                messages, df, odpc_df, indexers, merged_df, result_df>>

SiteChange(s) ==
    /\ s # site
    /\ site' = s
    /\ event' = "site"
    /\ UNCHANGED cache
    /\ Unrun

\* time passes: the entry gets older (ages beyond ttl are all alike)
Tick(d) ==
    /\ cache.present
    /\ cache.age <= ttl
    /\ cache' = [cache EXCEPT !.age = IF @ + d > ttl THEN ttl + 1 ELSE @ + d]
    /\ event' = "tick"
    /\ UNCHANGED site
    /\ Unrun

TickSteps == {ttl \div 2, ttl}

Next ==
    \/ \E f \in SessionUploads : Upload(f)
    \/ \E c \in {"Lowercase", "Uppercase"} : SelectCase(c)
    \/ Rerun
    \/ Reload
    \/ \E s \in SessionPages : SiteChange(s)
    \/ \E d \in TickSteps : Tick(d)

Spec == Init /\ [][Next]_vars

-----------------------------------------------------------------------------
(* SpecJoin: the script run once on each upload, page and case policy *)

InitJoin ==
    /\ site \in JoinPages
    /\ case_option \in {"Lowercase", "Uppercase"}
    /\ uploaded_file \in JoinUploads
    /\ Idle

NextJoin == Rerun

SpecJoin == InitJoin /\ [][NextJoin]_vars

-----------------------------------------------------------------------------
(* SpecParse: the page's table is written cell by cell, then scraped once *)

ParseCells ==
    { [tag |-> "th", text |-> <<" ", "A">>],
      [tag |-> "th", text |-> <<"B">>],
      [tag |-> "td", text |-> <<"a">>],
      [tag |-> "td", text |-> <<" ", "b", " ">>] }

InitParse ==
    /\ site = [kind |-> "table", table |-> <<>>]
    /\ case_option = "Lowercase"
    /\ uploaded_file = NoFile
    /\ Idle

PageAddRow ==
    /\ ~scraped.done
    /\ Len(site.table) < MaxTableRows
    /\ site' = [site EXCEPT !.table = Append(@, <<>>)]
    /\ event' = "page"
    /\ UNCHANGED <<cache, scraped, case_option, uploaded_file, called, fetched,
                   returned, messages, df, odpc_df, indexers, merged_df, result_df>>

PageAddCell(c) ==
    /\ ~scraped.done
    /\ site.table # <<>>
    /\ Len(Flatten(site.table)) < MaxTableCells
    /\ site' = [site EXCEPT !.table[Len(site.table)] = Append(@, c)]
    /\ event' = "page"
    /\ UNCHANGED <<cache, scraped, case_option, uploaded_file, called, fetched,
                   returned, messages, df, odpc_df, indexers, merged_df, result_df>>

Scrape ==
    /\ ~scraped.done
    /\ scraped' = [done |-> TRUE] @@ scrape_body(site)
    /\ event' = "scrape"
    /\ UNCHANGED <<site, cache, case_option, uploaded_file, called, fetched,
                   returned, messages, df, odpc_df, indexers, merged_df, result_df>>

NextParse ==
    \/ PageAddRow
    \/ \E c \in ParseCells : PageAddCell(c)
    \/ Scrape

SpecParse == InitParse /\ [][NextParse]_vars

-----------------------------------------------------------------------------
(* Vocabulary of the properties *)

Last(q) == q[Len(q)]

RanScript == event \in RunEvents
Success == RanScript /\ messages # <<>> /\ Last(messages) = MSG_SUCCESS
NoOutput == indexers = <<>> /\ merged_df = EmptyFrame /\ result_df = EmptyFrame

\* trim, then fold to the selected case
Normalized(opt, text) ==
    LET t == str_strip(text)
    IN  [i \in 1..Len(t) |-> IF opt = "Lowercase" THEN char_lower(t[i]) ELSE char_upper(t[i])]

UserColumns == {str_strip(c) : c \in Range(uploaded_file.columns)}
UserHasProviderName == COL_PROVIDER_NAME \in UserColumns
UserRows == 1..Len(uploaded_file.rows)
UserName(i) ==
    astype_str(uploaded_file.rows[i][CHOOSE c \in Range(uploaded_file.columns) :
                                        str_strip(c) = COL_PROVIDER_NAME])

RefRows == 1..Len(returned.rows)
RefName(j) == returned.rows[j][COL_NAME]

\* the reference rows whose normalized name equals that of user row i
Matches(i) ==
    {j \in RefRows :
        Normalized(case_option, RefName(j)) = Normalized(case_option, UserName(i))}

\* the rows of the result that come from user row i
OutRows(i) == {k \in 1..Len(indexers) : indexers[k][1] = i}

RowsDue(i) == IF Matches(i) = {} THEN 1 ELSE Cardinality(Matches(i))

RECURSIVE RowsDueUpTo(_)
RowsDueUpTo(n) == IF n = 0 THEN 0 ELSE RowsDueUpTo(n - 1) + RowsDue(n)

\* the k-th smallest element of a set of numbers
Nth(S, k) == CHOOSE x \in S : Cardinality({y \in S : y < x}) = k - 1

-----------------------------------------------------------------------------
(* C1 *)

\* C1 as claimed: after a successful run the result has exactly as many rows
\* as the upload, and every user row appears exactly once.
C1_JoinCompleteness ==
    Success =>
        /\ Len(result_df.rows) = Len(uploaded_file.rows)
        /\ \A i \in UserRows : Cardinality(OutRows(i)) = 1

\* C1 amended: every user row appears once per reference row with an equal
\* normalized name, and once when there is none; the rows of the result are
\* those, grouped by user row in upload order.
C1_JoinCardinality ==
    Success =>
        /\ Len(result_df.rows) = Len(indexers)
        /\ Len(merged_df.rows) = Len(indexers)
        /\ Len(result_df.rows) = RowsDueUpTo(Len(uploaded_file.rows))
        /\ \A i \in UserRows : Cardinality(OutRows(i)) = RowsDue(i)
        /\ \A k \in 1..Len(indexers) : indexers[k][1] \in UserRows
        /\ \A k \in 1..(Len(indexers) - 1) : indexers[k][1] <= indexers[k + 1][1]

C1_Witness ==
    /\ Success
    /\ Len(uploaded_file.rows) >= 2
    /\ \E i \in UserRows : Cardinality(Matches(i)) >= 2
    /\ \E i \in UserRows : Matches(i) = {}

-----------------------------------------------------------------------------
(* C2 *)

\* C2 as claimed: at most one reference row is attached to a user row, and
\* it is the first one in scrape order with an equal normalized name.
C2_FirstMatchWins ==
    Success =>
        \A i \in UserRows :
            /\ Cardinality({k \in OutRows(i) : indexers[k][2] # 0}) <= 1
            /\ Matches(i) # {} =>
                 \A k \in OutRows(i) : indexers[k][2] = SetMin(Matches(i))

\* the label a reference column has in merged_df
MergedRefLabel(c) == IF c \in Range(df.columns) THEN c \o SUFFIX_Y ELSE c

\* C2 amended: a user row has every reference row with an equal normalized
\* name attached, one result row each, in scrape order (so its first result
\* row carries the first such reference row); without one it has a single
\* result row with nothing attached.
C2_AllMatchesInOrder ==
    Success =>
        \A i \in UserRows :
            LET out == OutRows(i)
            IN  /\ Matches(i) = {} => \A k \in out : indexers[k][2] = 0
                /\ Matches(i) # {} =>
                     /\ Cardinality(out) = Cardinality(Matches(i))
                     /\ \A n \in 1..Cardinality(out) :
                          LET k == Nth(out, n)
                              j == Nth(Matches(i), n)
                          IN  /\ indexers[k][2] = j
                              /\ \A c \in Range(returned.columns) :
                                   merged_df.rows[k][MergedRefLabel(c)] = returned.rows[j][c]

C2_Witness ==
    /\ Success
    /\ \E i \in UserRows :
         /\ Cardinality(Matches(i)) >= 2
         /\ \E j1, j2 \in Matches(i) : RefName(j1) # RefName(j2)

-----------------------------------------------------------------------------
(* C3 *)

\* C3 as claimed: when exactly one reference row has the normalized name of a
\* user row, that user row's Matched Name is the reference row's NAME,
\* whatever other columns the upload has.
C3_JoinCorrectness ==
    Success =>
        \A i \in UserRows :
            Cardinality(Matches(i)) = 1 =>
                \A k \in OutRows(i) :
                    result_df.rows[k][COL_MATCHED_NAME] = RefName(SetMin(Matches(i)))

-----------------------------------------------------------------------------
(* C4 *)

\* the output fields that come from the reference data
RefDerived ==
    {COL_MATCHED_NAME} \cup
    {c \in Range(result_df.columns) : c \in Range(returned.columns) /\ c \notin UserColumns}

\* C4: both sides are normalized with the selected transform; a user row has
\* reference data attached exactly when some reference row has an equal
\* normalized name, and only such rows are attached; without one, Matched
\* Name and every reference-derived output field are null.
C4_ExactMatchAfterNormalization ==
    Success =>
        /\ \A i \in UserRows :
             df.rows[i][COL_PROVIDER_NORMALIZED] = Normalized(case_option, UserName(i))
        /\ \A j \in RefRows :
             odpc_df.rows[j][COL_ODPC_NORMALIZED] = Normalized(case_option, RefName(j))
        /\ \A i \in UserRows :
             (\E k \in OutRows(i) : indexers[k][2] # 0) <=> (Matches(i) # {})
        /\ \A k \in 1..Len(indexers) :
             /\ indexers[k][2] # 0 => indexers[k][2] \in Matches(indexers[k][1])
             /\ indexers[k][2] # 0 <=>
                  ~IsNull(merged_df.rows[k][MergedRefLabel(COL_ODPC_NORMALIZED)])
             /\ indexers[k][2] = 0 =>
                  \A c \in RefDerived : IsNull(result_df.rows[k][c])

C4_Witness ==
    /\ Success
    /\ \E k \in 1..Len(indexers) :
         /\ indexers[k][2] # 0
         /\ UserName(indexers[k][1]) # RefName(indexers[k][2])
    /\ \E k \in 1..Len(indexers) : indexers[k][2] = 0
    /\ COL_TYPE \in RefDerived

-----------------------------------------------------------------------------
(* C5 *)

\* C5: an upload without a Provider Name column, or a fetched reference
\* dataset without a NAME column, ends the run in the matching schema error
\* with no join, no result table and nothing to download.
C5_RequiredColumns ==
    (RanScript /\ uploaded_file.present /\ uploaded_file.readable) =>
        /\ ~UserHasProviderName =>
             /\ messages = <<MSG_NO_PROVIDER_NAME>>
             /\ ~called
             /\ NoOutput
        /\ (UserHasProviderName /\ returned.rows # <<>>
              /\ COL_NAME \notin {str_strip(c) : c \in Range(returned.columns)}) =>
             /\ Last(messages) = MSG_NO_NAME_COLUMN
             /\ NoOutput

C5_Witness ==
    /\ RanScript
    /\ UserHasProviderName
    /\ Len(uploaded_file.rows) >= 1
    /\ returned.rows # <<>>
    /\ COL_NAME \notin Range(returned.columns)
    /\ NoOutput

-----------------------------------------------------------------------------
(* Pages, as the properties see them *)

ThPositions(T) ==
    {p \in UNION {{<<r, i>> : i \in 1..Len(T[r])} : r \in 1..Len(T)} :
        T[p[1]][p[2]].tag = "th"}
TdPositions(row) == {i \in 1..Len(row) : row[i].tag = "td"}
Before(q, p) == q[1] < p[1] \/ (q[1] = p[1] /\ q[2] < p[2])

\* the n-th th of the table in document order, the n-th td of a row
NthTh(T, n) ==
    LET p == CHOOSE p \in ThPositions(T) :
                 Cardinality({q \in ThPositions(T) : Before(q, p)}) = n - 1
    IN  T[p[1]][p[2]]
NthTd(row, n) == row[Nth(TdPositions(row), n)]

HeaderCount(T) == Cardinality(ThPositions(T))
HeaderText(T, n) == str_strip(NthTh(T, n).text)
HeaderTexts(T) == {HeaderText(T, n) : n \in 1..HeaderCount(T)}

\* the rows after the first that have as many td cells as the table has th cells
ValidRows(T) == {r \in 2..Len(T) : Cardinality(TdPositions(T[r])) = HeaderCount(T)}

\* what a page is a case of
Class(s) ==
    IF s.kind \in {"request_error", "http_error"} THEN "network"
    ELSE IF s.kind = "no_table" THEN "shape"
    ELSE IF ValidRows(s.table) = {} THEN "empty"
    ELSE "data"

GoodSite(s) == Class(s) = "data" /\ COL_NAME \in HeaderTexts(s.table)
GoodFile(f) ==
    f.present /\ f.readable /\ COL_PROVIDER_NAME \in {str_strip(c) : c \in Range(f.columns)}

-----------------------------------------------------------------------------
(* C6 *)

\* C6: a fetch that succeeds with zero valid data rows raises nothing; the run
\* that gets it reports the empty-result error alone and stops before any
\* join and any result.
C6_EmptyReference ==
    (RanScript /\ called /\ Class(cache.origin) = "empty") =>
        /\ cache.msgs = <<>>
        /\ returned.rows = <<>>
        /\ messages = <<MSG_NO_ODPC_DATA>>
        /\ NoOutput

C6_Witness ==
    /\ RanScript /\ called /\ fetched
    /\ Class(cache.origin) = "empty"
    /\ Len(cache.origin.table) >= 2
    /\ messages = <<MSG_NO_ODPC_DATA>>

-----------------------------------------------------------------------------
(* C7 *)

FailureClasses == {"network", "shape", "empty"}

\* C7 as claimed: what the Fetcher hands back and reports after a failed
\* request, and after a page without a table, tells each of the two apart from
\* the other and from a table without valid rows.
C7_FetcherErrorsDistinguishable ==
    (RanScript /\ called /\ Class(cache.origin) \in {"network", "shape"}) =>
        \A s \in SessionPages :
            (Class(s) \in FailureClasses /\ Class(s) # Class(cache.origin)) =>
                scrape_body(s) # [value |-> returned, msgs |-> cache.msgs]

\* C7 amended: a failed request makes the Fetcher report a scraping error and
\* return an empty dataset; a page without a table makes it return an empty
\* dataset and report nothing, exactly as a table without valid rows does.
\* All three end the run with the same could-not-retrieve message and no
\* result; only the failed request shows, by the scraping error before it.
C7_FetcherErrorsCollapsed ==
    (RanScript /\ called /\ Class(cache.origin) \in FailureClasses) =>
        /\ returned.rows = <<>>
        /\ NoOutput
        /\ Class(cache.origin) = "network" =>
             /\ returned = EmptyFrame
             /\ messages = <<MSG_SCRAPING_ERROR, MSG_NO_ODPC_DATA>>
        /\ Class(cache.origin) = "shape" =>
             /\ returned = EmptyFrame
             /\ messages = <<MSG_NO_ODPC_DATA>>
        /\ Class(cache.origin) = "empty" =>
             messages = <<MSG_NO_ODPC_DATA>>

C7_Witness ==
    /\ RanScript /\ called /\ fetched
    /\ Class(cache.origin) = "shape"
    /\ messages = <<MSG_NO_ODPC_DATA>>

-----------------------------------------------------------------------------
(* C8 *)

ErrorShown ==
    /\ messages # <<>>
    /\ Last(messages) \in {MSG_NO_PROVIDER_NAME, MSG_NO_ODPC_DATA, MSG_NO_NAME_COLUMN}

\* C8 as claimed: the run that follows an error, whenever it comes, starts
\* afresh and succeeds when the upload and the page are good by then.
C8_RetryAfterError ==
    [][(ErrorShown /\ event' \in RunEvents /\ GoodFile(uploaded_file') /\ GoodSite(site'))
          => (Last(messages') = MSG_SUCCESS /\ result_df' # EmptyFrame)]_vars

-----------------------------------------------------------------------------
(* C10 *)

\* C10: a run that calls the Fetcher within the hour of the fetch behind the
\* cached entry makes no request and gets exactly what that fetch produced,
\* whatever earlier runs did to the frames they got; a run after the hour
\* makes a new request; no run works on data older than the hour.
C10_ReferenceCache ==
    [][(event' \in RunEvents /\ called') =>
          /\ (cache.present /\ cache.age < ttl) =>
                /\ ~fetched'
                /\ cache' = cache
                /\ returned' = scrape_body(cache.origin).value
          /\ (~cache.present \/ cache.age > ttl) =>
                /\ fetched'
                /\ cache'.age = 0
                /\ cache'.origin = site
                /\ returned' = scrape_body(site).value
          /\ cache'.present
          /\ cache'.age <= ttl
          /\ cache'.value = scrape_body(cache'.origin).value
          /\ cache'.msgs = scrape_body(cache'.origin).msgs
          /\ returned' = cache'.value]_vars

C10_Witness ==
    /\ RanScript /\ called /\ ~fetched
    /\ Success
    /\ cache.age > 0
    /\ cache.origin # site

-----------------------------------------------------------------------------
(* C9 *)

ParsedRows == scraped.value.rows

\* C9 as claimed, for a table whose first row holds th cells only and whose
\* other rows hold td cells only: with N the number of header cells of the
\* header row, the parsed rows are the later rows that have N cells, in page
\* order, and each maps header[i] to the trimmed text of cell[i] for every i.
WellFormed(T) ==
    /\ T # <<>>
    /\ T[1] # <<>>
    /\ \A i \in 1..Len(T[1]) : T[1][i].tag = "th"
    /\ \A r \in 2..Len(T) : \A i \in 1..Len(T[r]) : T[r][i].tag = "td"

C9_TableParsing ==
    (scraped.done /\ site.kind = "table" /\ WellFormed(site.table)) =>
        LET T == site.table
            N == Cardinality({i \in 1..Len(T[1]) : T[1][i].tag = "th"})
            H(i) == str_strip(T[1][Nth({x \in 1..Len(T[1]) : T[1][x].tag = "th"}, i)].text)
            kept == {r \in 2..Len(T) : Len(T[r]) = N}
        IN  /\ scraped.msgs = <<>>
            /\ Len(ParsedRows) = Cardinality(kept)
            /\ \A n \in 1..Cardinality(kept) :
                 /\ DOMAIN ParsedRows[n] = {H(i) : i \in 1..N}
                 /\ \A i \in 1..N :
                      ParsedRows[n][H(i)] = str_strip(T[Nth(kept, n)][i].text)

\* C9 amended: with N the number of th cells of the whole table, the parsed
\* rows are the rows after the first that have N td cells, in page order;
\* each has the header texts as its keys and maps a header text to the
\* trimmed text of the td at the last position where that text is the header
\* (position i for header[i] when the header texts are distinct).
C9_TableParsingAsCoded ==
    (scraped.done /\ site.kind = "table") =>
        LET T == site.table
            N == HeaderCount(T)
            kept == ValidRows(T)
        IN  /\ scraped.msgs = <<>>
            /\ Len(ParsedRows) = Cardinality(kept)
            /\ \A n \in 1..Cardinality(kept) :
                 /\ DOMAIN ParsedRows[n] = HeaderTexts(T)
                 /\ \A h \in HeaderTexts(T) :
                      ParsedRows[n][h] =
                        str_strip(NthTd(T[Nth(kept, n)],
                                        SetMax({i \in 1..N : HeaderText(T, i) = h})).text)

C9_Witness ==
    /\ scraped.done
    /\ WellFormed(site.table)
    /\ Len(ParsedRows) >= 1
    /\ Len(ParsedRows) < Len(site.table) - 1
    /\ Cardinality(HeaderTexts(site.table)) < HeaderCount(site.table)
    /\ \E h \in HeaderTexts(site.table) : ParsedRows[1][h] # <<"a">>

====
